---- MODULE Spec2Model ----
(***************************************************************************)
(* A model of the text-search toolkit: the query server                    *)
(* (text_search_webui_TURSO.py) and the indexer                            *)
(* (searchable_text_db_efficient_TURSO.py).                                *)
(*                                                                         *)
(* Text is a sequence of one-character strings.  Fixed pieces of SQL and   *)
(* of markup that the code never looks inside are single elements of such  *)
(* a sequence (for example "content:" or "</span>").                       *)
(***************************************************************************)
EXTENDS Integers, Sequences, FiniteSets, Bags, TLC

\* ------------------------------------------------------------------ bounds
MaxQueryLen == 2
MaxContentLen == 3
MaxSnippetQueryLen == 3
MaxSnippetLength == 2
MaxFiles == 2
MaxRuns == 2
MaxId == 3

\* ------------------------------------------------------------- text helpers
None == "None"

Max(a, b) == IF a >= b THEN a ELSE b

Min(a, b) == IF a <= b THEN a ELSE b

SeqsUpTo(S, n) == UNION {[1..k -> S] : k \in 0..n}

Range(s) == {s[k] : k \in 1..Len(s)}

\* Python slicing s[a:b]: a negative index counts from the end, and both
\* ends are clamped to the text.
PyIndex(s, k) == IF k < 0 THEN Max(0, Len(s) + k) ELSE Min(k, Len(s))

PySlice(s, a, b) ==
    LET lo == PyIndex(s, a)
        hi == PyIndex(s, b)
    IN  IF lo < hi THEN SubSeq(s, lo + 1, hi) ELSE <<>>

\* str.replace(old, new) for a one-character old: every occurrence.
RECURSIVE str_replace(_, _, _)
str_replace(s, old, new) ==
    IF s = <<>> THEN <<>>
    ELSE (IF Head(s) = old THEN new ELSE <<Head(s)>>)
         \o str_replace(Tail(s), old, new)

\* str.replace(old, new, 1): the first occurrence only.
RECURSIVE str_replace_first(_, _, _)
str_replace_first(s, old, new) ==
    IF s = <<>> THEN <<>>
    ELSE IF Head(s) = old THEN new \o Tail(s)
    ELSE <<Head(s)>> \o str_replace_first(Tail(s), old, new)

\* re.IGNORECASE: two characters match when they agree up to case.
Lower(c) == IF c = "A" THEN "a" ELSE c

LowerSeq(s) == [k \in 1..Len(s) |-> Lower(s[k])]

\* The pattern re.escape(query) matches the literal query, ignoring case, at
\* 0-based offset pos of s.
MatchAt(q, s, pos) ==
    /\ pos + Len(q) <= Len(s)
    /\ \A k \in 1..Len(q) : Lower(s[pos + k]) = Lower(q[k])

\* pattern.finditer(s): the 0-based start offsets of the leftmost,
\* non-overlapping matches (the queries here are never empty).
RECURSIVE finditer(_, _, _)
finditer(q, s, pos) ==
    IF pos + Len(q) > Len(s) THEN <<>>
    ELSE IF MatchAt(q, s, pos) THEN <<pos>> \o finditer(q, s, pos + Max(1, Len(q)))
    ELSE finditer(q, s, pos + 1)

SpanOpen == "<span class=\"highlight\">"

SpanClose == "</span>"

\* re.sub(query_regex, '<span class="highlight">\g<0></span>', s, IGNORECASE)
RECURSIVE re_sub(_, _, _)
re_sub(q, s, pos) ==
    IF pos >= Len(s) THEN <<>>
    ELSE IF MatchAt(q, s, pos)
         THEN <<SpanOpen>> \o SubSeq(s, pos + 1, pos + Len(q)) \o <<SpanClose>>
              \o re_sub(q, s, pos + Max(1, Len(q)))
    ELSE <<s[pos + 1]>> \o re_sub(q, s, pos + 1)

Ellipsis == <<".", ".", ".">>

\* ------------------------------------------------- search_database, lines 36-82
\* The FTS query: phrase-quoted when the query holds a space.
QuotedQuery(query) ==
    IF " " \in Range(query)
    THEN <<"\"">> \o str_replace(query, "\"", <<"\"", "\"">>) \o <<"\"">>
    ELSE query

\* fts_query_sql and params of the if/elif/else on search_type.
FtsQuerySql(search_type) ==
    IF search_type = "content" THEN <<"content:", "?">>
    ELSE IF search_type = "filename" THEN <<"filename:", "?">>
    ELSE <<"text_files_fts MATCH ", "?">>

AllParams(quoted_query) ==
    <<<<"content:">> \o quoted_query \o <<" OR ">> \o <<"filename:">> \o quoted_query>>

\* The f-string sql: the SELECT .. WHERE part, the WHERE operand, the rest.
SqlTemplate(search_type) ==
    <<"SELECT .. FROM text_files_fts JOIN text_files AS tf .. WHERE ">>
    \o (IF search_type # "all" THEN <<"text_files_fts MATCH ", "?">>
        ELSE FtsQuerySql(search_type))
    \o <<" ORDER BY text_files_fts.rank LIMIT 1000">>

\* The statement handed to db_client.execute: its text and its parameters.
Statement(query, search_type) ==
    LET quoted_query == QuotedQuery(query)
        fts_query_sql == FtsQuerySql(search_type)
        sql0 == SqlTemplate(search_type)
    IN  IF search_type # "all"
        THEN LET q_params == str_replace(fts_query_sql, "?", quoted_query)
                 \* sql.replace("?", q_params[0], 1); the later replace of
                 \* "text_files_fts MATCH ?" by itself changes nothing
                 sql1 == str_replace_first(sql0, "?", q_params)
                 match_clause == <<search_type \o ":">> \o quoted_query
             IN  [sql |-> sql1, params |-> <<match_clause>>]
        ELSE [sql |-> sql0, params |-> AllParams(quoted_query)]

\* ------------------------------------------------ search_database, lines 86-119
\* Mutant of FirstMatch: the window is taken around the last match.
FirstMatch_Last(matches) == matches[Len(matches)]

\* matches[0]
FirstMatch(matches) == matches[1]

SnippetStart(match_start, snippet_length) == Max(0, match_start - snippet_length)

SnippetEnd(full_content, match_end, snippet_length) ==
    Min(Len(full_content), match_end + snippet_length)

\* The snippet before highlighting (the local variable `snippet`).
Snippet(full_content, query, snippet_length) ==
    LET matches == finditer(query, full_content, 0)
    IN  IF matches # <<>>
        THEN LET ms == FirstMatch(matches)
                 start == SnippetStart(ms, snippet_length)
                 end == SnippetEnd(full_content, ms + Len(query), snippet_length)
                 body == PySlice(full_content, start, end)
                 s1 == IF start > 0 THEN Ellipsis \o body ELSE body
             IN  IF end < Len(full_content) THEN s1 \o Ellipsis ELSE s1
        ELSE PySlice(full_content, 0, snippet_length * 2)
             \o (IF Len(full_content) > snippet_length * 2 THEN Ellipsis ELSE <<>>)

Highlight(query, snippet) == re_sub(query, snippet, 0)

\* One entry of results for one row of rs.rows.
MakeResult(row, query, snippet_length) ==
    [file_path |-> row.filepath,
     file_name |-> row.filename,
     snippet   |-> Highlight(query, Snippet(row.content, query, snippet_length)),
     rank      |-> row.rank,
     image_url |-> row.image_url]

\* ------------------------------------------------------------------ state
VARIABLES
    db_client,        \* the module-level client: TRUE, or FALSE for None
    templates_ready,  \* templates/view_file.html exists on disk
    text_files,       \* the content table: a set of rows
    text_files_fts,   \* the full-text index: a bag of entries
    request,          \* the request being answered
    response,         \* the answer to it: [status, body]
    db_call,          \* the statement last handed to db_client.execute
    quoted_query,     \* search_database's local of that name
    snippet,          \* search_database's local of that name (last row)
    pc,               \* the indexer's position
    txt_files,        \* the indexer's discovered files, in discovery order
    i,                \* how many of them the loop has taken
    stdout,           \* what the indexer has printed
    bucket            \* the object keys uploaded to the bucket

srvVars == <<db_client, templates_ready, request, response, db_call,
             quoted_query, snippet>>

dbVars == <<text_files, text_files_fts>>

idxVars == <<pc, txt_files, i, stdout, bucket>>

vars == <<srvVars, dbVars, idxVars>>

\* ------------------------------------------------------------------ inputs
QueryChars == {"a", "A", " ", "\t", "\"", ".", "?"}

ContentChars == {"a", "A", ".", " "}

Queries == SeqsUpTo(QueryChars, MaxQueryLen)

Contents == SeqsUpTo(ContentChars, MaxContentLen)

\* The queries tried against those contents: never empty (search() rejects
\* an empty query before search_database runs).
SnippetQueries == SeqsUpTo(ContentChars, MaxSnippetQueryLen) \ {<<>>}

\* The request's snippet_length: int() yields val, or raises ValueError.
SnippetLengths == (-1)..MaxSnippetLength

SnippetInputs ==
    {[valid |-> TRUE, val |-> n] : n \in SnippetLengths}
    \cup {[valid |-> FALSE, val |-> 0]}

SearchTypes == {"content", "filename", "all", "other"}

\* A text file's path: TEXT_DIRECTORY/<dir>/<base>.txt.
Dirs == {"001", "misc"}

Bases == {"a"}

Paths == [dir : Dirs, base : Bases]

\* request.args.get('path') when the parameter is missing or empty.
NoPath == [dir |-> "", base |-> ""]

\* os.path.basename(file_path)
basename(path) == <<path.base, ".", "t", "x", "t">>

\* ------------------------------------------------------------ the datastore
\* No statement was handed to the datastore.
NoCall == [made |-> FALSE, stmt |-> [sql |-> <<>>, params |-> <<>>], raised |-> FALSE]

\* The AFTER INSERT trigger's index entry for a row.
FtsEntry(row) ==
    [rowid |-> row.id, id |-> row.id, content |-> row.content,
     filename |-> row.filename, filepath |-> row.filepath]

\* A statement SQLite can prepare: the WHERE operand is the placeholder, and
\* one parameter is bound to it.  Text spliced after MATCH is a syntax error.
Preparable(stmt) ==
    /\ stmt.sql = <<"SELECT .. FROM text_files_fts JOIN text_files AS tf .. WHERE ",
                    "text_files_fts MATCH ", "?",
                    " ORDER BY text_files_fts.rank LIMIT 1000">>
    /\ Len(stmt.params) = 1

\* Sequences of distinct elements of S.
Orderings(S) ==
    {f \in UNION {[1..k -> S] : k \in 0..Cardinality(S)} :
        \A a, b \in 1..Len(f) : a # b => f[a] # f[b]}

\* The fts5 index (unicode61 tokenizer): a text's tokens are its runs of
\* characters other than separators, folded to lower case.
Separators == {" ", "\t", "\"", ".", "?"}

RECURSIVE FtsTokens(_, _)
FtsTokens(s, cur) ==
    IF s = <<>> THEN (IF cur = <<>> THEN <<>> ELSE <<cur>>)
    ELSE IF Head(s) \in Separators
    THEN (IF cur = <<>> THEN <<>> ELSE <<cur>>) \o FtsTokens(Tail(s), <<>>)
    ELSE FtsTokens(Tail(s), Append(cur, Lower(Head(s))))

\* The tokens of phrase occur in doc, adjacent and in order.
ContainsPhrase(doc, phrase) ==
    /\ phrase # <<>>
    /\ \E p \in 1..(Len(doc) - Len(phrase) + 1) :
          SubSeq(doc, p, p + Len(phrase) - 1) = phrase

\* The operand X of the match expression content:X OR filename:X.
FtsOperand(expr) == SubSeq(expr, 2, (Len(expr) - 1) \div 2)

\* X is a bareword: fts5 reads it as one term.
IsBareword(X) == Range(X) \cap Separators = {}

\* X is a quoted string with no quote inside: fts5 reads it as a phrase.
IsString(X) ==
    /\ Len(X) >= 2
    /\ X[1] = "\"" /\ X[Len(X)] = "\""
    /\ \A k \in 2..(Len(X) - 1) : X[k] # "\""

\* X is a bareword with punctuation in it: an fts5 syntax error.
IsSyntaxError(X) ==
    /\ ~IsBareword(X)
    /\ Range(X) \cap {"\"", "\t", " "} = {}

FtsPhrase(X) ==
    IF IsBareword(X) THEN <<LowerSeq(X)>>
    ELSE FtsTokens(SubSeq(X, 2, Len(X) - 1), <<>>)

RowMatches(row, phrase) ==
    \/ ContainsPhrase(FtsTokens(row.content, <<>>), phrase)
    \/ ContainsPhrase(FtsTokens(row.filename, <<>>), phrase)

\* The sets of rows the MATCH can select.  For a term or a phrase it is the
\* rows holding it in content or filename; an operand with stray quotes or
\* tabs is left to the engine (any rows).
MatchSets(expr, table) ==
    LET X == FtsOperand(expr)
    IN  IF IsBareword(X) \/ IsString(X)
        THEN {{r \in table : RowMatches(r, FtsPhrase(X))}}
        ELSE IF IsSyntaxError(X) THEN {}
        ELSE SUBSET table

\* What db_client.execute can do with the search statement: raise (the
\* datastore is unreachable, or rejects the statement or the match
\* expression), or return the matching rows in rank order (an opaque order).
SearchOutcomes(stmt, table) ==
    {[raised |-> TRUE, rows |-> <<>>]} \cup
    (IF Preparable(stmt)
     THEN {[raised |-> FALSE,
            rows |-> [k \in 1..Len(o) |->
               [filepath |-> o[k].filepath, filename |-> o[k].filename,
                content |-> o[k].content, image_url |-> o[k].image_url,
                rank |-> k]]] :
              o \in UNION {{f \in Orderings(S) : Len(f) = Cardinality(S)} :
                              S \in MatchSets(stmt.params[1], table)}}
     ELSE {})

\* "SELECT content, image_url FROM text_files WHERE filepath = ?"
ViewOutcomes(file_path, table) ==
    {[raised |-> TRUE, rows |-> {}],
     [raised |-> FALSE, rows |-> {r \in table : r.filepath = file_path}]}

\* The server is between requests.
NoRequest == [route |-> "none"]

NoResponse == [status |-> 0, body |-> "none"]

\* ----------------------------------------------------------- search_database
\* results for the rows the datastore returned ([] when execute raised).
RECURSIVE ProcessRows(_, _, _)
ProcessRows(rows, query, snippet_length) ==
    IF rows = <<>> THEN <<>>
    ELSE <<MakeResult(Head(rows), query, snippet_length)>>
         \o ProcessRows(Tail(rows), query, snippet_length)

search_database_results(out, query, snippet_length) ==
    IF out.raised THEN <<>> ELSE ProcessRows(out.rows, query, snippet_length)

\* --------------------------------------------------------------- POST /search
\* Mutant of SearchResponse: the query is validated before the connection.
SearchResponse_QueryFirst(query, snippet_length, search_type, out) ==
    IF query = <<>>
    THEN [status |-> 400, body |-> [error |-> "Query is required"]]
    ELSE IF ~db_client
    THEN [status |-> 500, body |-> [error |-> "Database connection not available"]]
    ELSE IF ~snippet_length.valid
    THEN [status |-> 500, body |-> [error |-> "Internal Server Error"]]
    ELSE LET results == search_database_results(out, query, snippet_length.val)
         IN  [status |-> 200,
              body |-> [query |-> query, results |-> results,
                        count |-> Len(results), search_type |-> search_type]]

\* search(): the response to a request, given what execute did.
SearchResponse(query, snippet_length, search_type, out) ==
    IF ~db_client
    THEN [status |-> 500, body |-> [error |-> "Database connection not available"]]
    ELSE IF ~snippet_length.valid
    THEN [status |-> 500, body |-> [error |-> "Internal Server Error"]]
    ELSE IF query = <<>>
    THEN [status |-> 400, body |-> [error |-> "Query is required"]]
    ELSE LET results == search_database_results(out, query, snippet_length.val)
         IN  [status |-> 200,
              body |-> [query |-> query, results |-> results,
                        count |-> Len(results), search_type |-> search_type]]

\* Whether the handler gets as far as calling search_database.
Searches(query, snippet_length) ==
    db_client /\ snippet_length.valid /\ query # <<>>

search(query, snippet_length, search_type, out) ==
    /\ request = NoRequest
    /\ request' = [route |-> "/search", query |-> query,
                   snippet_length |-> snippet_length, search_type |-> search_type]
    /\ response' = SearchResponse(query, snippet_length, search_type, out)
    /\ IF Searches(query, snippet_length)
       THEN /\ quoted_query' = QuotedQuery(query)
            /\ db_call' = [made |-> TRUE, stmt |-> Statement(query, search_type),
                           raised |-> out.raised]
            /\ snippet' = IF out.rows = <<>> THEN <<>>
                          ELSE Snippet(out.rows[Len(out.rows)].content, query,
                                       snippet_length.val)
       ELSE /\ quoted_query' = <<>>
            /\ snippet' = <<>>
            /\ db_call' = NoCall
    /\ UNCHANGED <<db_client, templates_ready, dbVars, idxVars>>

Search ==
    /\ request = NoRequest
    /\ \E query \in Queries, snippet_length \in SnippetInputs,
       search_type \in SearchTypes :
        \E out \in SearchOutcomes(Statement(query, search_type), text_files) :
            search(query, snippet_length, search_type, out)

\* ------------------------------------------------------------- GET /view_file
\* Mutant of ViewResponse: an unknown path is rendered as an empty document.
ViewResponse_NoNotFound(file_path, out) ==
    IF ~db_client
    THEN [status |-> 500, body |-> "Database connection not available"]
    ELSE IF file_path = NoPath
    THEN [status |-> 400, body |-> "File path parameter is missing"]
    ELSE IF out.raised
    THEN [status |-> 500, body |-> "Error reading file"]
    ELSE IF ~templates_ready
    THEN [status |-> 500, body |-> "Error reading file"]
    ELSE [status |-> 200,
          body |-> [template |-> "view_file.html", file_path |-> file_path,
                    content |-> <<>>, image_url |-> None]]

\* view_file(): the response to a request, given what execute did.
ViewResponse(file_path, out) ==
    IF ~db_client
    THEN [status |-> 500, body |-> "Database connection not available"]
    ELSE IF file_path = NoPath
    THEN [status |-> 400, body |-> "File path parameter is missing"]
    ELSE IF out.raised
    THEN [status |-> 500, body |-> "Error reading file"]
    ELSE IF out.rows = {}
    THEN [status |-> 404, body |-> "File not found in database"]
    ELSE IF ~templates_ready
    THEN [status |-> 500, body |-> "Error reading file"]
    ELSE LET row == CHOOSE r \in out.rows : TRUE
         IN  [status |-> 200,
              body |-> [template |-> "view_file.html", file_path |-> file_path,
                        content |-> row.content, image_url |-> row.image_url]]

view_file(file_path, out) ==
    /\ request = NoRequest
    /\ request' = [route |-> "/view_file", path |-> file_path]
    /\ response' = ViewResponse(file_path, out)
    /\ db_call' = IF db_client /\ file_path # NoPath
                  THEN [made |-> TRUE,
                        stmt |-> [sql |-> <<"SELECT content, image_url FROM text_files WHERE filepath = ", "?">>,
                                  params |-> <<file_path>>],
                        raised |-> out.raised]
                  ELSE NoCall
    /\ quoted_query' = <<>>
    /\ snippet' = <<>>
    /\ UNCHANGED <<db_client, templates_ready, dbVars, idxVars>>

ViewFile ==
    /\ request = NoRequest
    /\ \E file_path \in Paths \cup {NoPath} :
        \E out \in ViewOutcomes(file_path, text_files) :
            view_file(file_path, out)

\* --------------------------------------------------------------------- GET /
\* index() calls create_templates(), which writes both templates.
index ==
    /\ request = NoRequest
    /\ request' = [route |-> "/"]
    /\ templates_ready' = TRUE
    /\ response' = [status |-> 200, body |-> [template |-> "index.html"]]
    /\ db_call' = NoCall
    /\ quoted_query' = <<>>
    /\ snippet' = <<>>
    /\ UNCHANGED <<db_client, dbVars, idxVars>>

\* The response is sent and the handler's locals are gone; the server takes
\* the next request.
reply ==
    /\ request # NoRequest
    /\ request' = NoRequest
    /\ response' = NoResponse
    /\ db_call' = NoCall
    /\ quoted_query' = <<>>
    /\ snippet' = <<>>
    /\ UNCHANGED <<db_client, templates_ready, dbVars, idxVars>>

\* ------------------------------------------------------------------ indexer
R2_PUBLIC_URL == "https://pub.r2.dev"

image_extensions == {".jpg", ".jpeg", ".JPG", ".JPEG", ".png", ".PNG"}

\* No image exists for any extension of the list.
NoImage == "NoImage"

\* What a file holds when the indexer reads it.
FileContents == {<<"a">>, <<"A", " ", "a">>}

\* re.search(r'/TEXT/(\d{3})/', txt_path) finds a three-digit directory.
HasSubDir(txt_path) == txt_path.dir \in {"001"}

\* Mutant of find_and_upload_image: the public URL is returned whether or not
\* the upload succeeded.
find_and_upload_image_UrlOnFailure(txt_path, first_ext, upload_ok) ==
    IF ~HasSubDir(txt_path) THEN [url |-> None, keys |-> {}, log |-> <<>>]
    ELSE IF first_ext = NoImage THEN [url |-> None, keys |-> {}, log |-> <<>>]
    ELSE LET object_key == txt_path.dir \o "/" \o txt_path.base \o first_ext
         IN  [url |-> R2_PUBLIC_URL \o "/" \o object_key,
              keys |-> IF upload_ok THEN {object_key} ELSE {},
              log |-> <<[event |-> IF upload_ok THEN "Uploaded"
                                   ELSE "Error uploading",
                         key |-> object_key]>>]

\* find_and_upload_image: first_ext is the first extension of the list whose
\* image exists; the result is the URL returned and the object keys written.
find_and_upload_image(txt_path, first_ext, upload_ok) ==
    IF ~HasSubDir(txt_path) THEN [url |-> None, keys |-> {}, log |-> <<>>]
    ELSE IF first_ext = NoImage THEN [url |-> None, keys |-> {}, log |-> <<>>]
    ELSE LET object_key == txt_path.dir \o "/" \o txt_path.base \o first_ext
         IN  IF upload_ok
             THEN [url |-> R2_PUBLIC_URL \o "/" \o object_key,
                   keys |-> {object_key},
                   log |-> <<[event |-> "Uploaded", key |-> object_key]>>]
             ELSE [url |-> None, keys |-> {},
                   log |-> <<[event |-> "Error uploading", key |-> object_key]>>]

\* INTEGER PRIMARY KEY: the next rowid.
NextId(table) == IF table = {} THEN 1
                 ELSE 1 + CHOOSE m \in {r.id : r \in table} :
                              \A r \in table : r.id <= m

\* Mutant of InsertOrIgnore: INSERT OR REPLACE, the duplicate row is rewritten.
InsertOrIgnore_Replace(table, filename, filepath, content, image_url) ==
    {r \in table : r.filepath # filepath}
    \cup {[id |-> NextId(table), filename |-> filename,
            filepath |-> filepath, content |-> content,
            image_url |-> image_url]}

\* INSERT OR IGNORE under the UNIQUE constraint on filepath: the new table.
InsertOrIgnore(table, filename, filepath, content, image_url) ==
    IF \E r \in table : r.filepath = filepath THEN table
    ELSE table \cup {[id |-> NextId(table), filename |-> filename,
                      filepath |-> filepath, content |-> content,
                      image_url |-> image_url]}

\* The text_files_ai trigger: INSERT INTO text_files_fts(rowid, ..) VALUES
\* (new.id, ..) adds the new row's entry to the index.
text_files_ai(fts, new) == fts (+) SetToBag({FtsEntry(new)})

\* The text_files_ad trigger: the 'delete' command takes the old row's entry
\* out of the index.
text_files_ad(fts, old) == fts (-) SetToBag({FtsEntry(old)})

\* Mutant of text_files_au: the trigger only inserts the new entry.
text_files_au_InsertOnly(fts, old, new) == text_files_ai(fts, new)

\* The text_files_au trigger: the 'delete' command for the old row's values,
\* then the insert of the new row's.
text_files_au(fts, old, new) == text_files_ai(text_files_ad(fts, old), new)

\* The index after an INSERT OR IGNORE statement: text_files_ai fires for the
\* row the statement added, if it added one.
AfterInsert(fts, old_table, new_table) ==
    IF new_table \ old_table = {} THEN fts
    ELSE text_files_ai(fts, CHOOSE r \in new_table \ old_table : TRUE)

\* The lists glob.glob can discover: distinct paths.
Discoverable == {f \in Orderings(Paths) : Len(f) <= MaxFiles}

\* main(): a new process creates the tables (IF NOT EXISTS) and starts
\* index_text_files, which globs the files and prints how many it found.
index_text_files_begin(files) ==
    /\ pc \in {"idle", "done"}
    /\ Len(SelectSeq(stdout, LAMBDA e : e.event = "Run")) < MaxRuns
    /\ pc' = "loop"
    /\ txt_files' = files
    /\ i' = 0
    /\ stdout' = SelectSeq(stdout, LAMBDA e : e.event = "Run")
                 \o <<[event |-> "Run"], [event |-> "Found", total |-> Len(files)]>>
    /\ UNCHANGED <<bucket, dbVars, srvVars>>

\* Mutant of process_file: a file that fails ends the loop (no try/except
\* around the body's errors, as a break would).
process_file_Aborts(read_ok, full_content, first_ext, upload_ok, insert_ok) ==
    /\ pc = "loop"
    /\ i < Len(txt_files)
    /\ LET file_path == txt_files[i + 1]
           filename == basename(file_path)
           img == IF read_ok
                  THEN find_and_upload_image(file_path, first_ext, upload_ok)
                  ELSE [url |-> None, keys |-> {}, log |-> <<>>]
           table == IF read_ok /\ insert_ok
                    THEN InsertOrIgnore(text_files, filename, file_path,
                                        full_content, img.url)
                    ELSE text_files
       IN  /\ bucket' = bucket \cup img.keys
           /\ text_files' = table
           /\ text_files_fts' = AfterInsert(text_files_fts, text_files, table)
           /\ stdout' = stdout
                  \o <<[event |-> "Processing", path |-> file_path]>>
                  \o img.log
                  \o (IF read_ok /\ insert_ok THEN <<>>
                      ELSE <<[event |-> "Error processing", path |-> file_path]>>)
    /\ i' = IF read_ok /\ insert_ok THEN i + 1 ELSE Len(txt_files)
    /\ UNCHANGED <<pc, txt_files, srvVars>>

\* Mutant of process_file: a failed upload is not caught in
\* find_and_upload_image and reaches the loop's except clause, so the file is
\* not inserted.
process_file_UploadAborts(read_ok, full_content, first_ext, upload_ok, insert_ok) ==
    /\ pc = "loop"
    /\ i < Len(txt_files)
    /\ LET file_path == txt_files[i + 1]
           filename == basename(file_path)
           img == IF read_ok
                  THEN find_and_upload_image(file_path, first_ext, upload_ok)
                  ELSE [url |-> None, keys |-> {}, log |-> <<>>]
           uploaded == \A k \in 1..Len(img.log) : img.log[k].event = "Uploaded"
           table == IF read_ok /\ insert_ok /\ uploaded
                    THEN InsertOrIgnore(text_files, filename, file_path,
                                        full_content, img.url)
                    ELSE text_files
       IN  /\ bucket' = bucket \cup img.keys
           /\ text_files' = table
           /\ text_files_fts' = AfterInsert(text_files_fts, text_files, table)
           /\ stdout' = stdout
                  \o <<[event |-> "Processing", path |-> file_path]>>
                  \o img.log
                  \o (IF read_ok /\ insert_ok /\ uploaded THEN <<>>
                      ELSE <<[event |-> "Error processing", path |-> file_path]>>)
    /\ i' = i + 1
    /\ UNCHANGED <<pc, txt_files, srvVars>>

\* One iteration of the for loop over txt_files.
process_file(read_ok, full_content, first_ext, upload_ok, insert_ok) ==
    /\ pc = "loop"
    /\ i < Len(txt_files)
    /\ LET file_path == txt_files[i + 1]
           filename == basename(file_path)
           img == IF read_ok
                  THEN find_and_upload_image(file_path, first_ext, upload_ok)
                  ELSE [url |-> None, keys |-> {}, log |-> <<>>]
           table == IF read_ok /\ insert_ok
                    THEN InsertOrIgnore(text_files, filename, file_path,
                                        full_content, img.url)
                    ELSE text_files
       IN  /\ bucket' = bucket \cup img.keys
           /\ text_files' = table
           /\ text_files_fts' = AfterInsert(text_files_fts, text_files, table)
           /\ stdout' = stdout
                  \o <<[event |-> "Processing", path |-> file_path]>>
                  \o img.log
                  \o (IF read_ok /\ insert_ok THEN <<>>
                      ELSE <<[event |-> "Error processing", path |-> file_path]>>)
    /\ i' = i + 1
    /\ UNCHANGED <<pc, txt_files, srvVars>>

ProcessFile ==
    \E read_ok, upload_ok, insert_ok \in BOOLEAN, full_content \in FileContents,
       first_ext \in image_extensions \cup {NoImage} :
        process_file(read_ok, full_content, first_ext, upload_ok, insert_ok)

\* After the loop: "Indexing complete! Processed {total_files} files."
index_text_files_end ==
    /\ pc = "loop"
    /\ i = Len(txt_files)
    /\ pc' = "done"
    /\ stdout' = stdout \o <<[event |-> "Complete", total |-> Len(txt_files)]>>
    /\ UNCHANGED <<txt_files, i, bucket, dbVars, srvVars>>

IndexBegin == \E files \in Discoverable : index_text_files_begin(files)

\* ---------------------------------------------------------- specifications
ServerIdle ==
    /\ request = NoRequest
    /\ response = NoResponse
    /\ db_call = NoCall
    /\ quoted_query = <<>>
    /\ snippet = <<>>

IndexerIdle ==
    /\ pc = "idle"
    /\ txt_files = <<>>
    /\ i = 0
    /\ stdout = <<>>
    /\ bucket = {}

Row(id, path, content, image_url) ==
    [id |-> id, filename |-> basename(path), filepath |-> path,
     content |-> content, image_url |-> image_url]

Path1 == [dir |-> "001", base |-> "a"]

Path2 == [dir |-> "misc", base |-> "a"]

\* The indexer: runs of main() against an empty datastore.
InitIndexer ==
    /\ db_client = TRUE
    /\ templates_ready = FALSE
    /\ text_files = {}
    /\ text_files_fts = EmptyBag
    /\ ServerIdle
    /\ IndexerIdle

NextIndexer == IndexBegin \/ ProcessFile \/ index_text_files_end

SpecIndexer == InitIndexer /\ [][NextIndexer]_vars

FairSpecIndexer ==
    SpecIndexer /\ WF_vars(ProcessFile) /\ WF_vars(index_text_files_end)

\* The datastore under statements on the content table: the indexer's INSERT
\* OR IGNORE, and the UPDATE and DELETE statements the triggers are written
\* for.  A statement that violates PRIMARY KEY or UNIQUE fails and changes
\* nothing.
Filenames == {basename(path) : path \in Paths} \cup {<<"b", ".", "t", "x", "t">>}

ImageUrls == {None, R2_PUBLIC_URL \o "/001/a.jpg"}

insert_document(filename, filepath, content, image_url) ==
    /\ NextId(text_files) <= MaxId
    /\ text_files' = InsertOrIgnore(text_files, filename, filepath, content,
                                    image_url)
    /\ text_files_fts' = AfterInsert(text_files_fts, text_files, text_files')
    /\ UNCHANGED <<srvVars, idxVars>>

InsertDocument ==
    \E filename \in Filenames, filepath \in Paths, content \in FileContents,
       image_url \in ImageUrls :
        insert_document(filename, filepath, content, image_url)

update_document(old, id, filename, filepath, content, image_url) ==
    LET new == [id |-> id, filename |-> filename, filepath |-> filepath,
                content |-> content, image_url |-> image_url]
    IN  /\ old \in text_files
        /\ \A r \in text_files \ {old} : r.id # id /\ r.filepath # filepath
        /\ text_files' = (text_files \ {old}) \cup {new}
        /\ text_files_fts' = text_files_au(text_files_fts, old, new)
        /\ UNCHANGED <<srvVars, idxVars>>

UpdateDocument ==
    \E old \in text_files, id \in 1..MaxId, filename \in Filenames,
       filepath \in Paths, content \in FileContents, image_url \in ImageUrls :
        update_document(old, id, filename, filepath, content, image_url)

delete_document(old) ==
    /\ old \in text_files
    /\ text_files' = text_files \ {old}
    /\ text_files_fts' = text_files_ad(text_files_fts, old)
    /\ UNCHANGED <<srvVars, idxVars>>

DeleteDocument == \E old \in text_files : delete_document(old)

InitDatastore ==
    /\ db_client = TRUE
    /\ templates_ready = FALSE
    /\ text_files = {}
    /\ text_files_fts = EmptyBag
    /\ ServerIdle
    /\ IndexerIdle

NextDatastore == InsertDocument \/ UpdateDocument \/ DeleteDocument

SpecDatastore == InitDatastore /\ [][NextDatastore]_vars

\* search_database on one returned row, whose content is any text.
InitSnippet ==
    /\ db_client = TRUE
    /\ templates_ready = FALSE
    /\ \E c \in Contents, path \in Paths : text_files = {Row(1, path, c, None)}
    /\ text_files_fts = SetToBag({FtsEntry(r) : r \in text_files})
    /\ ServerIdle
    /\ IndexerIdle

SearchOneRow ==
    /\ request = NoRequest
    /\ \E query \in SnippetQueries, n \in SnippetLengths :
        \E out \in SearchOutcomes(Statement(query, "all"), text_files) :
            /\ Len(out.rows) = 1
            /\ search(query, [valid |-> TRUE, val |-> n], "all", out)

NextSnippet == SearchOneRow \/ reply

SpecSnippet == InitSnippet /\ [][NextSnippet]_vars

\* The query server over a small corpus.
Doc1 == Row(1, Path1, <<"a", " ", ".", "A">>, R2_PUBLIC_URL \o "/001/a.jpg")

Doc2 == Row(2, Path2, <<"A", "a", "a">>, None)

InitServer ==
    /\ db_client \in BOOLEAN
    /\ templates_ready \in BOOLEAN
    /\ text_files \in {{}, {Doc1}, {Doc1, Doc2}}
    /\ text_files_fts = SetToBag({FtsEntry(r) : r \in text_files})
    /\ ServerIdle
    /\ IndexerIdle

NextServer == Search \/ ViewFile \/ index \/ reply

SpecServer == InitServer /\ [][NextServer]_vars

Spec == SpecServer

\* ------------------------------------------------------ claims: POST /search
\* The search request being answered reached search_database's execute call.
SearchExecuted == request.route = "/search" /\ db_call.made

Whitespace == {" ", "\t"}

\* q with every double quote doubled.
QuotesDoubled(q) ==
    LET n == Cardinality({k \in 1..Len(q) : q[k] = "\""})
        \* the offset of q[k] in the result
        At(k) == k + Cardinality({j \in 1..(k - 1) : q[j] = "\""})
    IN  [m \in 1..(Len(q) + n) |->
            IF \E k \in 1..Len(q) : At(k) = m
            THEN q[CHOOSE k \in 1..Len(q) : At(k) = m]
            ELSE "\""]

PhraseQuoted(q) == <<"\"">> \o QuotesDoubled(q) \o <<"\"">>

\* C1: a query holding any whitespace character is wrapped in double quotes
\* with its embedded double quotes doubled; a query with no whitespace is used
\* unchanged.
C1_QuotedIffWhitespace ==
    SearchExecuted =>
        quoted_query = IF Range(request.query) \cap Whitespace # {}
                       THEN PhraseQuoted(request.query)
                       ELSE request.query

\* The statement every mode is meant to execute: the match expression bound
\* to the one placeholder of MATCH ?.
PreparedSql ==
    <<"SELECT .. FROM text_files_fts JOIN text_files AS tf .. WHERE ",
      "text_files_fts MATCH ", "?", " ORDER BY text_files_fts.rank LIMIT 1000">>

ScopedMatch(mode, q) ==
    IF mode = "content" THEN <<"content:">> \o q
    ELSE IF mode = "filename" THEN <<"filename:">> \o q
    ELSE <<"content:">> \o q \o <<" OR ">> \o <<"filename:">> \o q

\* C2: in each of the modes content, filename and all, the executed statement
\* matches against exactly the mode's scoped expression over the (possibly
\* phrase-quoted) query.
C2_MatchScopedByMode ==
    (SearchExecuted /\ request.search_type \in {"content", "filename", "all"}) =>
        /\ db_call.stmt.sql = PreparedSql
        /\ db_call.stmt.params = <<ScopedMatch(request.search_type, quoted_query)>>

\* The number of '?' placeholders in a statement's text.
Placeholders(sql) == Cardinality({k \in 1..Len(sql) : sql[k] = "?"})

\* C13: in every mode the statement text sent to the datastore is the one
\* sent for any other query string of that mode (the query is not part of
\* the text), it holds exactly one '?' placeholder, and exactly one
\* parameter is bound, which carries the match expression.
C13_QueryOnlyBound ==
    SearchExecuted =>
        /\ \A other \in Queries \ {<<>>} :
              db_call.stmt.sql = Statement(other, request.search_type).sql
        /\ Placeholders(db_call.stmt.sql) = 1
        /\ Len(db_call.stmt.params) = 1

\* C8: a search whose datastore query failed is answered with an error
\* payload or an error status, never with a successful response.
C8_QueryFailureSurfaced ==
    (SearchExecuted /\ db_call.raised) =>
        \/ response.status >= 400
        \/ "error" \in DOMAIN response.body

SuccessPayload ==
    /\ response.status = 200
    /\ DOMAIN response.body = {"query", "results", "count", "search_type"}
    /\ response.body.count = Len(response.body.results)
    /\ response.body.query = request.query
    /\ response.body.search_type = request.search_type

\* C9 as stated, for requests whose snippet_length is an integer: an empty
\* query gives 400, an unavailable datastore connection gives 500, anything
\* else the success payload.
C9_AsStated ==
    (request.route = "/search" /\ request.snippet_length.valid) =>
        /\ request.query = <<>> => response.status = 400
        /\ ~db_client => response.status = 500
        /\ (request.query # <<>> /\ db_client) => SuccessPayload

\* C9, amended: the connection is checked first and snippet_length is
\* converted before the query is looked at.  Without a connection the answer
\* is 500; otherwise a snippet_length that int() rejects gives 500; otherwise
\* an empty or absent query gives 400; otherwise the answer is the success
\* payload, whose count is the number of results and whose query and
\* search_type echo the request.
C9_SearchResponses ==
    request.route = "/search" =>
        IF ~db_client THEN response.status = 500
        ELSE IF ~request.snippet_length.valid THEN response.status = 500
        ELSE IF request.query = <<>> THEN response.status = 400
        ELSE SuccessPayload

\* A search answered with two results.
C9_Witness ==
    /\ request.route = "/search"
    /\ response.status = 200
    /\ response.body.count = 2

\* ---------------------------------------------------- claims: GET /view_file
RowsAt(path) == {r \in text_files : r.filepath = path}

Rendered(row) ==
    /\ response.status = 200
    /\ response.body.content = row.content
    /\ response.body.image_url = row.image_url

\* C10 as stated: a missing path gives 400, a path with no row gives 404, and
\* a path with a row is rendered with that row's content and image_url.
C10_AsStated ==
    request.route = "/view_file" =>
        /\ request.path = NoPath => response.status = 400
        /\ (request.path # NoPath /\ RowsAt(request.path) = {})
              => response.status = 404
        /\ \A row \in RowsAt(request.path) : Rendered(row)

\* C10, amended: without a datastore connection the answer is 500 whatever
\* the path; otherwise a missing or empty path gives 400; otherwise a failed
\* lookup gives 500; otherwise a path with no row gives 404; otherwise the
\* view is rendered with exactly the row's content and image_url, or the
\* answer is 500 when the view template does not exist yet.
C10_ViewResponses ==
    request.route = "/view_file" =>
        IF ~db_client THEN response.status = 500
        ELSE IF request.path = NoPath THEN response.status = 400
        ELSE IF db_call.raised THEN response.status = 500
        ELSE IF RowsAt(request.path) = {} THEN response.status = 404
        ELSE IF ~templates_ready THEN response.status = 500
        ELSE \A row \in RowsAt(request.path) : Rendered(row)

\* A stored document with no image is rendered.
C10_Witness ==
    /\ request.route = "/view_file"
    /\ response.status = 200
    /\ \E row \in RowsAt(request.path) :
          row.image_url = None /\ Rendered(row)

\* ------------------------------------------- claims: snippets and highlights
\* The search request was answered with results.
Answered == request.route = "/search" /\ response.status = 200

Results == response.body.results

\* The stored content of the document a result is for.
ContentOf(result) ==
    (CHOOSE r \in text_files : r.filepath = result.file_path).content

\* The 0-based offsets at which q occurs in c, ignoring case.
Occurrences(c, q) ==
    {p \in 0..(Len(c) - Len(q)) :
        LowerSeq(SubSeq(c, p + 1, p + Len(q))) = LowerSeq(q)}

FirstOccurrence(c, q) ==
    CHOOSE p \in Occurrences(c, q) : \A o \in Occurrences(c, q) : p <= o

WindowStart(c, q, n) == Max(0, FirstOccurrence(c, q) - n)

WindowEnd(c, q, n) == Min(Len(c), FirstOccurrence(c, q) + Len(q) + n)

IsMarkup(e) == e \in {SpanOpen, SpanClose}

\* A returned snippet without its highlight markup.
Strip(h) == SelectSeq(h, LAMBDA e : ~IsMarkup(e))

\* C3: for a returned row whose content contains the query (ignoring case),
\* the snippet text is content[start:end] around the earliest occurrence,
\* start = max(0, first_start - snippet_length) and
\* end = min(len(content), first_end + snippet_length), with "..." in front
\* exactly when start > 0 and "..." behind exactly when end < len(content).
C3_SnippetWindow ==
    Answered =>
        \A k \in 1..Len(Results) :
            LET c == ContentOf(Results[k])
                q == request.query
                n == request.snippet_length.val
            IN  Occurrences(c, q) # {} =>
                    LET start == WindowStart(c, q, n)
                        end == WindowEnd(c, q, n)
                        text == (IF start > 0 THEN Ellipsis ELSE <<>>)
                                \o PySlice(c, start, end)
                                \o (IF end < Len(c) THEN Ellipsis ELSE <<>>)
                    IN  /\ Strip(Results[k].snippet) = text
                        /\ k = Len(Results) => snippet = text

\* A row with two occurrences of the query whose window is cut at both ends.
C3_Witness ==
    /\ Answered
    /\ Len(Results) = 1
    /\ LET c == ContentOf(Results[1])
           q == request.query
           n == request.snippet_length.val
       IN  /\ Cardinality(Occurrences(c, q)) >= 2
           /\ WindowStart(c, q, n) > 0
           /\ WindowEnd(c, q, n) < Len(c)
           /\ n >= 0
           /\ SubSeq(snippet, 1, 3) = Ellipsis

\* C4: for a returned row whose content does not contain the query, the
\* snippet in the result is the first 2*snippet_length characters of the
\* content, followed by "..." exactly when the content is longer.
C4_FallbackSnippet ==
    (Answered /\ request.snippet_length.val >= 0) =>
        \A k \in 1..Len(Results) :
            LET c == ContentOf(Results[k])
                n == request.snippet_length.val
            IN  Occurrences(c, request.query) = {} =>
                    Results[k].snippet =
                        PySlice(c, 0, 2 * n)
                        \o (IF Len(c) > 2 * n THEN Ellipsis ELSE <<>>)

\* The offsets, in the snippet without markup, at which a highlight opens.
SpanStarts(h) ==
    {Len(Strip(SubSeq(h, 1, j))) : j \in {m \in 1..Len(h) : h[m] = SpanOpen}}

\* C5: highlight markup wraps the occurrences of the query that lie within
\* the extracted window of the document content and nothing else: every
\* highlighted span is an occurrence of the query in the content (never the
\* added "..."), and every occurrence within the window meets a span.
C5_HighlightOnlyOccurrences ==
    (Answered /\ request.snippet_length.val >= 0) =>
        \A k \in 1..Len(Results) :
            LET c == ContentOf(Results[k])
                q == request.query
                n == request.snippet_length.val
                found == Occurrences(c, q) # {}
                start == IF found THEN WindowStart(c, q, n) ELSE 0
                end == IF found THEN WindowEnd(c, q, n) ELSE Min(Len(c), 2 * n)
                lead == IF found /\ start > 0 THEN Len(Ellipsis) ELSE 0
                \* the content offset of snippet offset s
                Off(s) == s - lead + start
                spans == SpanStarts(Results[k].snippet)
            IN  /\ \A s \in spans :
                      /\ s >= lead
                      /\ Off(s) + Len(q) <= end
                      /\ Off(s) \in Occurrences(c, q)
                /\ \A p \in Occurrences(c, q) :
                      (start <= p /\ p + Len(q) <= end) =>
                          \E s \in spans :
                              /\ s >= lead
                              /\ Off(s) < p + Len(q)
                              /\ p < Off(s) + Len(q)

\* ------------------------------------------------------- claims: the indexer
\* C6: the content table never holds two rows with one filepath, and
\* ingesting a file whose filepath is already present leaves the content
\* table as it was (the row keeps its filename, content and image_url).
C6_InsertOrIgnore ==
    [][/\ \A r1, r2 \in text_files' : r1.filepath = r2.filepath => r1 = r2
       /\ (/\ pc = "loop"
           /\ i' = i + 1
           /\ \E r \in text_files : r.filepath = txt_files[i + 1])
             => text_files' = text_files]_vars

\* A file was read, its image uploaded and its insert executed without an
\* error, and the row of its filepath still has no image_url: the row was
\* there before, and the insert left it alone.
C6_Witness ==
    /\ pc = "loop"
    /\ i >= 1
    /\ stdout[Len(stdout)].event = "Uploaded"
    /\ \E r \in text_files : r.filepath = txt_files[i] /\ r.image_url = None

\* The lines printed by the step.
Printed == SubSeq(stdout', Len(stdout) + 1, Len(stdout'))

\* C12: when the upload of the image found for a text file fails, the file
\* is neither aborted nor skipped: the loop moves on without an "Error
\* processing" line, and if the filepath is new and the insert succeeds the
\* content table gains a row with the file's name, path, full content and a
\* null image_url.
C12_UploadFailureIsNoImage ==
    [][\A full_content \in FileContents, first_ext \in image_extensions,
          insert_ok \in BOOLEAN :
          (/\ pc = "loop"
           /\ i < Len(txt_files)
           /\ HasSubDir(txt_files[i + 1])
           /\ process_file(TRUE, full_content, first_ext, FALSE, insert_ok))
          => /\ i' = i + 1
             /\ bucket' = bucket
             /\ \E k \in 1..Len(Printed) : Printed[k].event = "Error uploading"
             /\ insert_ok =>
                   /\ \A k \in 1..Len(Printed) :
                         Printed[k].event # "Error processing"
                   /\ (\A r \in text_files : r.filepath # txt_files[i + 1]) =>
                         text_files' = text_files \cup
                             {[id |-> NextId(text_files),
                               filename |-> basename(txt_files[i + 1]),
                               filepath |-> txt_files[i + 1],
                               content |-> full_content,
                               image_url |-> None]}]_vars

\* The first file of the first run against the empty datastore: its image
\* failed to upload, and its row is there with no image_url.
C12_Witness ==
    /\ pc = "loop"
    /\ i = 1
    /\ Len(SelectSeq(stdout, LAMBDA e : e.event = "Run")) = 1
    /\ stdout[Len(stdout)].event = "Error uploading"
    /\ \E r \in text_files :
          /\ text_files = {r}
          /\ r.filepath = txt_files[1]
          /\ r.image_url = None

\* ----------------------------------------------------- claims: the datastore
\* The index entries of one rowid.
IndexEntriesOf(id) == {e \in BagToSet(text_files_fts) : e.rowid = id}

RowEntry(r) ==
    SetToBag({[rowid |-> r.id, id |-> r.id, content |-> r.content,
               filename |-> r.filename, filepath |-> r.filepath]})

\* The change of the index is that of one trigger reacting to the change of
\* the content table.
TriggerFired ==
    \/ \E new \in text_files' \ text_files :
          /\ text_files' = text_files \cup {new}
          /\ text_files_fts' = text_files_fts (+) RowEntry(new)
    \/ \E old \in text_files \ text_files' :
          /\ text_files' = text_files \ {old}
          /\ text_files_fts' = text_files_fts (-) RowEntry(old)
    \/ \E old \in text_files \ text_files', new \in text_files' \ text_files :
          /\ text_files' = (text_files \ {old}) \cup {new}
          /\ text_files_fts' = (text_files_fts (-) RowEntry(old)) (+) RowEntry(new)

\* C11: after any sequence of inserts, updates and deletes on text_files,
\* every row has exactly one index entry, which carries the row's current id,
\* content, filename and filepath; no index entry is without a row; and the
\* index changes only as a trigger's reaction to a change of text_files.
C11_IndexMirrorsTable ==
    /\ [](\A r \in text_files :
            /\ IndexEntriesOf(r.id) = BagToSet(RowEntry(r))
            /\ \A e \in IndexEntriesOf(r.id) : CopiesIn(e, text_files_fts) = 1)
    /\ [](\A e \in BagToSet(text_files_fts) : \E r \in text_files : r.id = e.rowid)
    /\ [][text_files_fts' # text_files_fts => TriggerFired]_vars

\* Two rows after an update and a delete or renumbering: a row's filename
\* was changed, and no row has id 1 any more.
C11_Witness ==
    /\ Cardinality(text_files) = 2
    /\ \E r \in text_files : r.filename # basename(r.filepath)
    /\ \A r \in text_files : r.id # 1
    /\ BagCardinality(text_files_fts) = 2

\* The object key of a text file's image of one extension.
ObjectKey(path, ext) == path.dir \o "/" \o path.base \o ext

\* C14: in every state of an indexer run, re-runs included, a row with an
\* image_url is a row of a file under a three-digit directory, and the URL is
\* the public base URL, "/" and the key <subdir>/<basename><ext> of an
\* object that was uploaded to the bucket.
C14_ImageUrlIsUploadedObject ==
    \A r \in text_files :
        r.image_url # None =>
            /\ HasSubDir(r.filepath)
            /\ \E ext \in image_extensions :
                  /\ ObjectKey(r.filepath, ext) \in bucket
                  /\ r.image_url = R2_PUBLIC_URL \o "/" \o ObjectKey(r.filepath, ext)

\* A second run in which the upload for a file failed, after a first run
\* whose upload succeeded: another file's row has no image, and the row of
\* this file still carries the URL of the object uploaded first.
C14_Witness ==
    /\ pc = "loop"
    /\ i >= 1
    /\ Len(SelectSeq(stdout, LAMBDA e : e.event = "Run")) = 2
    /\ stdout[Len(stdout)].event = "Error uploading"
    /\ \E r \in text_files : r.filepath = txt_files[i] /\ r.image_url # None
    /\ \E r \in text_files : r.image_url = None

\* The paths of the "Processing i/total: path" lines, in order.
Attempts ==
    LET lines == SelectSeq(stdout, LAMBDA e : e.event = "Processing")
    IN  [k \in 1..Len(lines) |-> lines[k].path]

\* C7: index_text_files attempts every discovered file exactly once in
\* discovery order whatever fails on the way, and the run reaches completion
\* and reports the number of discovered files.
C7_EveryFileAttempted ==
    /\ [](pc = "loop" => Attempts = SubSeq(txt_files, 1, i))
    /\ [](pc = "done" =>
            /\ Attempts = txt_files
            /\ stdout[Len(stdout)] = [event |-> "Complete", total |-> Len(txt_files)])
    /\ ((pc = "loop") ~> (pc = "done"))

\* A finished run of two files whose first file failed.
C7_Witness ==
    /\ pc = "done"
    /\ Len(txt_files) = 2
    /\ Attempts = txt_files
    /\ \E k \in 1..Len(stdout) :
          stdout[k] = [event |-> "Error processing", path |-> txt_files[1]]

====
